---- MODULE Spec2Model ----
(***************************************************************************)
(* pydrifter: statistical drift tests between a control and a treatment    *)
(* sample, and the TableDriftChecker that runs them over a table.          *)
(*                                                                         *)
(* Numbers.  A Python/numpy float is modelled by an exact decimal fraction *)
(* [n, d, e] standing for n / (d * 10^e); d = 0 is not-a-number (NaN).     *)
(* Comparisons with NaN are FALSE, as in IEEE arithmetic.  Logarithms and  *)
(* square roots are computed in fixed point (1e-5 and 1e-3 units).         *)
(*                                                                         *)
(* Samples.  Every quantity the tests compute (quantile, histogram, mean,  *)
(* std, distances, rank statistics) is a symmetric function of the sample, *)
(* so a sample (a pandas Series of numbers) is held as its value counts:   *)
(* a function from Values to the number of occurrences.                    *)
(***************************************************************************)
EXTENDS Integers, Sequences, FiniteSets, TLC

\* ------------------------------------------------------------------ bounds
\* largest number of occurrences of one value in a sample
MaxMult == 2
\* largest number of histogram bins the bin-edge rule may choose
MaxBins == 3
\* the values a sample may hold
Values == {0, 1, 2}

\* ----------------------------------------------------------------- numbers
Abs(x) == IF x < 0 THEN -x ELSE x

RECURSIVE GCD(_, _)
GCD(a, b) == IF b = 0 THEN a ELSE GCD(b, a % b)

RECURSIVE Pow10(_)
Pow10(e) == IF e = 0 THEN 1 ELSE 10 * Pow10(e - 1)

RECURSIVE Pow2(_)
Pow2(e) == IF e = 0 THEN 1 ELSE 2 * Pow2(e - 1)

NaN == [n |-> 0, d |-> 0, e |-> 0]
\* the "-" string some variants store as p_value
Dash == [n |-> -1, d |-> 0, e |-> 0]

\* a / b as a number in lowest terms; x / 0 with x = 0 is NaN (numpy 0/0)
Frac(a, b) ==
  IF b = 0 THEN NaN
  ELSE LET g == GCD(Abs(a), b) IN [n |-> a \div g, d |-> b \div g, e |-> 0]

\* x / 10^k
Shift(x, k) == IF x.d = 0 THEN x ELSE [n |-> x.n, d |-> x.d, e |-> x.e + k]

Zero == Frac(0, 1)
One == Frac(1, 1)

IsNaN(x) == x.d = 0
IsZero(x) == x.d > 0 /\ x.n = 0
Lt(a, b) == a.d > 0 /\ b.d > 0 /\ a.n * b.d * Pow10(b.e) < b.n * a.d * Pow10(a.e)
Le(a, b) == a.d > 0 /\ b.d > 0 /\ a.n * b.d * Pow10(b.e) <= b.n * a.d * Pow10(a.e)
Eq(a, b) == a.d > 0 /\ b.d > 0 /\ a.n * b.d * Pow10(b.e) = b.n * a.d * Pow10(a.e)
Ge(a, b) == Le(b, a)

\* x as a plain fraction (e = 0)
Flat(x) == IF x.d = 0 THEN NaN ELSE Frac(x.n, x.d * Pow10(x.e))

AddFlat(x, y) == Frac(x.n * y.d + y.n * x.d, x.d * y.d)

Add(a, b) == IF a.d = 0 \/ b.d = 0 THEN NaN ELSE AddFlat(Flat(a), Flat(b))

\* floor(sqrt(x)) for x >= 0, by bisection on [lo, hi)
RECURSIVE SqrtBetween(_, _, _)
SqrtBetween(x, lo, hi) ==
  IF hi - lo <= 1 THEN lo
  ELSE LET mid == (lo + hi) \div 2
       IN IF mid * mid <= x THEN SqrtBetween(x, mid, hi) ELSE SqrtBetween(x, lo, mid)

ISqrt(x) == SqrtBetween(x, 0, 46341)

\* ln(k) * 10^5 for an integer k >= 1: k = 2^b * y with 1 <= y < 2 and
\* ln y = 2 atanh((y - 1) / (y + 1)), the series cut after z^11
RECURSIVE Log2Floor(_)
Log2Floor(k) == IF k < 2 THEN 0 ELSE 1 + Log2Floor(k \div 2)

\* z^j / j + z^(j+2) / (j+2) + ... + z^11 / 11, zj being z^j
RECURSIVE OddSeries(_, _, _)
OddSeries(zj, z2, j) ==
  IF j > 11 THEN 0
  ELSE zj \div j + OddSeries((zj * z2) \div 100000, z2, j + 2)

\* atanh(z) * 10^5 for z in units of 1e-5
Atanh(z) == OddSeries(z, (z * z) \div 100000, 1)

\* ln(k) * 10^5 where p = 2^b is the largest power of two <= k
LnSplit(k, b, p) == b * 69315 + 2 * Atanh(((k - p) * 100000) \div (k + p))

LnPow(k, b) == LnSplit(k, b, Pow2(b))

LnInt(k) == LnPow(k, Log2Floor(k))

\* ln(x) * 10^5 for a number x > 0
LnNum(x) == LnInt(x.n) - LnInt(x.d) - x.e * LnInt(10)

\* x * t for a number x and a fixed-point integer t
MulFix(x, t) == (x.n * t) \div (x.d * Pow10(x.e))

\* ----------------------------------------------------------------- samples
RECURSIVE SumOver(_, _)
SumOver(f, S) ==
  IF S = {} THEN 0
  ELSE LET v == CHOOSE v \in S : TRUE IN f[v] + SumOver(f, S \ {v})

Samples == {s \in [Values -> 0..MaxMult] : \E v \in Values : s[v] > 0}

\* len(data)
Size(s) == SumOver(s, Values)
Support(s) == {v \in Values : s[v] > 0}
MinOf(S) == CHOOSE v \in S : \A w \in S : v <= w
MaxOf(S) == CHOOSE v \in S : \A w \in S : w <= v
IsConstant(s) == Cardinality(Support(s)) <= 1
\* data_a and data_b put together (pd.concat)
Concat(a, b) == [v \in Values |-> a[v] + b[v]]
SubBag(a, b) == \A v \in Values : a[v] <= b[v]

\* the i-th smallest element (0-based) of a sample
OrderStat(s, i) ==
  MinOf({v \in Values : SumOver(s, {w \in Values : w <= v}) > i})

\* sum of v^k over the sample
Moment(s, k) ==
  SumOver([v \in Values |-> s[v] * (IF k = 1 THEN v ELSE v * v)], Values)

\* the test inputs are pandas Series (run_statistics passes table columns and
\* the quantile cut calls Series.quantile), so std and var are the sample
\* ones (ddof = 1) and are NaN for a single observation; mean of an empty
\* Series is NaN.  std is kept in units of 1e-3.
Mean(s) == Frac(Moment(s, 1), Size(s))

\* n * sum(x^2) - (sum x)^2 = n * sum((x - mean)^2)
SumSq(s) == Size(s) * Moment(s, 2) - Moment(s, 1) * Moment(s, 1)

Var(s) == IF Size(s) < 2 THEN NaN ELSE Frac(SumSq(s), Size(s) * (Size(s) - 1))

Std(s) ==
  IF Size(s) < 2 THEN NaN
  ELSE Shift(Frac(ISqrt((SumSq(s) * 1000000) \div (Size(s) * (Size(s) - 1))), 1), 3)

calculate_statistics(data) == [mean |-> Mean(data), std |-> Std(data), var |-> Var(data)]

\* ------------------------------------------------- quantile cut (trimming)
\* Series.quantile(q), linear interpolation between the order statistics
\* around position (n - 1) * q; NaN for an empty Series
\* a + (r / d) * (b - a)
Lerp(a, b, r, d) == Frac(a * d + r * (b - a), d)

\* the value at position pos / d of the sorted sample whose last index is last
QuantileAt(s, pos, d, last) ==
  Lerp(OrderStat(s, pos \div d),
       OrderStat(s, IF pos \div d < last THEN pos \div d + 1 ELSE last),
       pos % d, d)

QuantileOf(s, x, last) == QuantileAt(s, last * x.n, x.d, last)

Quantile(s, q) ==
  IF Size(s) = 0 THEN NaN ELSE QuantileOf(s, Flat(q), Size(s) - 1)

\* Series.quantile raises ValueError for q outside [0, 1]
QuantileRaises(q) == Lt(q, Zero) \/ Lt(One, q)

\* a cut that keeps the values equal to the quantile (data <= quantile)
TrimInclusive(data, q) ==
  [v \in Values |-> IF Le(Frac(v, 1), Quantile(data, q)) THEN data[v] ELSE 0]

\* data[data < data.quantile(q)]
Trim(data, q) ==
  LET cut == Quantile(data, q)
  IN [v \in Values |-> IF Lt(Frac(v, 1), cut) THEN data[v] ELSE 0]

\* `if self.q:` (False, 0 and 0.0 are falsy)
Truthy(q) == ~IsZero(q)

\* --------------------------------------------------- binning and smoothing
\* np.histogram_bin_edges(pooled, bins="doane") gives equal-width bins from
\* the pooled minimum to the pooled maximum.  Their number is computed by
\* numpy from the pooled size and skewness; here it is any k in 1..MaxBins.
\* One bin when the pooled data is empty or holds a single value.
BinChoices(pooled) ==
  IF Cardinality(Support(pooled)) <= 1 THEN {1} ELSE 1..MaxBins

\* the bin (1..k) of value v: half-open bins, the last one closed
BinOf(pooled, k, v) ==
  LET lo == MinOf(Support(pooled))
      hi == MaxOf(Support(pooled))
  IN IF lo = hi \/ v = hi THEN k ELSE ((v - lo) * k) \div (hi - lo) + 1

\* np.histogram(data, bins)[0]
Histogram(data, pooled, k) ==
  [i \in 1..k |-> SumOver(data, {v \in Support(data) : BinOf(pooled, k, v) = i})]

\* the counts divided by the size of the pooled data instead of len(data)
PercentsOfPooled(data, pooled, k) ==
  [i \in 1..k |-> Frac(Histogram(data, pooled, k)[i], Size(pooled))]

\* np.histogram(data, bins)[0] / len(data)
Percents(data, pooled, k) ==
  LET h == Histogram(data, pooled, k) IN [i \in 1..k |-> Frac(h[i], Size(data))]

\* min(percents[percents != 0]); NaN != 0 holds, and min over NaNs is NaN
MinNonZero(percents) ==
  LET nz == {i \in DOMAIN percents : ~IsZero(percents[i])}
  IN IF \E i \in nz : IsNaN(percents[i]) THEN NaN
     ELSE percents[CHOOSE i \in nz : \A j \in nz : Le(percents[i], percents[j])]

\* the value np.place puts into the zero entries
\* a floor that keeps 1e-4 when the smallest mass is exactly 1e-4
FloorForStrict(m) == IF Lt(m, Shift(One, 4)) THEN Shift(m, 6) ELSE Shift(One, 4)

\* percents[percents != 0].min() / 10**6 if that minimum is <= 0.0001,
\* else 0.0001
FloorFor(m) == IF Le(m, Shift(One, 4)) THEN Shift(m, 6) ELSE Shift(One, 4)

FloorValue(percents) == FloorFor(MinNonZero(percents))

\* np.place(percents, percents == 0, floor)
place_zero_mass(percents) ==
  IF \A i \in DOMAIN percents : IsZero(percents[i]) THEN percents
  ELSE [i \in DOMAIN percents |->
          IF IsZero(percents[i]) THEN FloorValue(percents) ELSE percents[i]]

\* ------------------------------------------------- statistics of two samples
RECURSIVE SumIdx(_, _)
SumIdx(f, k) == IF k = 0 THEN 0 ELSE f[k] + SumIdx(f, k - 1)

RECURSIVE SumNum(_, _)
SumNum(f, k) == IF k = 0 THEN Zero ELSE Add(f[k], SumNum(f, k - 1))

\* sum(percents)
Total(percents) == SumNum(percents, Cardinality(DOMAIN percents))

HasNaN(percents) == \E i \in DOMAIN percents : IsNaN(percents[i])

\* scipy.stats.entropy(pk, qk): both vectors are divided by their sums, then
\* sum(pk * log(pk / qk)); in units of 1e-5
\* sum(pk * log(pk / qk)) of the vectors as given
EntropyTerms(pk, qk, k) ==
  SumIdx([i \in 1..k |-> MulFix(pk[i], LnNum(pk[i]) - LnNum(qk[i]))], k)

\* with t the sum over the vectors as given and sp, sq their sums:
\* sum((pk/sp) * log((pk/sp) / (qk/sq))) = t / sp - ln sp + ln sq
EntropyNorm(t, sp, sq) ==
  Shift(Frac(t - (t * (sp.n - sp.d)) \div sp.n
               - (LnInt(sp.n) - LnInt(sp.d)) + (LnInt(sq.n) - LnInt(sq.d)), 1), 5)

entropy(pk, qk) ==
  IF HasNaN(pk) \/ HasNaN(qk) THEN NaN
  ELSE EntropyNorm(EntropyTerms(pk, qk, Cardinality(DOMAIN pk)), Total(pk), Total(qk))

\* np.sum((reference - current) * np.log(reference / current)); units of 1e-5
\* (r - c) * l, l being log(r / c)
PsiTermLog(r, c, l) == MulFix(r, l) - MulFix(c, l)

PsiTerm(r, c) == PsiTermLog(r, c, LnNum(r) - LnNum(c))

PsiTerms(reference, current, k) ==
  SumIdx([i \in 1..k |-> PsiTerm(reference[i], current[i])], k)

psi_sum(reference, current) ==
  IF HasNaN(reference) \/ HasNaN(current) THEN NaN
  ELSE Shift(Frac(PsiTerms(reference, current, Cardinality(DOMAIN reference)), 1), 5)

\* number of observations <= v
CountUpTo(s, v) == SumOver(s, {w \in Values : w <= v})

\* |F_u(v) - F_v(v)| * len(u) * len(v)
CdfGap(u, w, v) == Abs(CountUpTo(u, v) * Size(w) - CountUpTo(w, v) * Size(u))

\* scipy.stats.wasserstein_distance(u, w) of two non-empty samples: the area
\* between the two empirical distribution functions
wasserstein_distance(u, w) ==
  LET step(v) == IF v = MaxOf(Values) THEN 0
                 ELSE MinOf({x \in Values : x > v}) - v
  IN Frac(SumOver([v \in Values |-> CdfGap(u, w, v) * step(v)], Values),
          Size(u) * Size(w))

\* the statistic of scipy.stats.ks_2samp: the largest gap between the two
\* empirical distribution functions
ks_statistic(u, w) ==
  Frac(MaxOf({CdfGap(u, w, v) : v \in Values}), Size(u) * Size(w))

\* the statistic of scipy.stats.mannwhitneyu: U of the first sample, the
\* pairs with x > y plus half the pairs with x = y
mw_statistic(u, w) ==
  Frac(SumOver([v \in Values |->
                  u[v] * (2 * SumOver(w, {x \in Values : x < v}) + w[v])], Values),
       2)

\* the p-values scipy reports are not recomputed here: a p-value is one of
PGrid == {Zero, Frac(1, 20), One}

\* ks_2samp: p = 1 when the distribution functions coincide
KsResults(d) ==
  {[statistics |-> d, p_value |-> p] : p \in IF IsZero(d) THEN {One} ELSE PGrid}

ks_2samp(u, w) == KsResults(ks_statistic(u, w))

\* mannwhitneyu (two-sided): p is clipped to 1 when U equals its mean
MwResults(s, mean_u) ==
  {[statistics |-> s, p_value |-> p] : p \in IF Eq(s, mean_u) THEN {One} ELSE PGrid}

mannwhitneyu(u, w) == MwResults(mw_statistic(u, w), Frac(Size(u) * Size(w), 2))

\* a / b for b > 0
Div(a, b) ==
  IF a.d = 0 \/ b.d = 0 \/ b.n <= 0 THEN NaN
  ELSE Frac(a.n * b.d * Pow10(b.e), a.d * Pow10(a.e) * b.n)

\* Python's max(a, b): b only when b > a, so max(NaN, b) is NaN
PyMax(a, b) == IF Lt(a, b) THEN b ELSE a

\* ------------------------------------------------------------- bootstrap
\* round(len(data) * 0.2) instead of int(len(data) * 0.2)
DrawCountRounded(data) == (Size(data) * 2 + 5) \div 10

\* int(len(data) * 0.2): the number of values one resample draws
DrawCount(data) == (Size(data) * 2) \div 10

\* the sums k values drawn with replacement from the sample can have
RECURSIVE DrawSums(_, _)
DrawSums(data, k) ==
  IF k = 0 THEN {0}
  ELSE {v + t : v \in Support(data), t \in DrawSums(data, k - 1)}

\* float(np.random.choice(data, int(len(data) * 0.2)).mean()): the mean of an
\* empty draw is NaN.  `draws` records how many values were drawn.
Resamples(data) ==
  {[mean |-> Frac(t, DrawCount(data)), draws |-> DrawCount(data)] :
     t \in DrawSums(data, DrawCount(data))}

\* scipy.stats.ttest_ind on the two arrays of bootstrap means.  NaN when a
\* resample is empty or both arrays are constant and equal; p = 0 when both
\* are constant and differ; otherwise one of three representative results,
\* the resampling being random.
Inf == [n |-> 1, d |-> 0, e |-> 0]

ttest_ind(control, treatment) ==
  IF DrawCount(control) = 0 \/ DrawCount(treatment) = 0
    THEN {[statistics |-> NaN, p_value |-> NaN]}
  ELSE IF IsConstant(control) /\ IsConstant(treatment)
    THEN IF Support(control) = Support(treatment)
           THEN {[statistics |-> NaN, p_value |-> NaN]}
           ELSE {[statistics |-> Inf, p_value |-> Zero]}
  ELSE {[statistics |-> Zero, p_value |-> One],
        [statistics |-> Frac(2, 1), p_value |-> Frac(1, 20)],
        [statistics |-> Frac(9, 1), p_value |-> Zero]}

\* ------------------------------------------------------- result objects
NoObj == [f \in {} |-> 0]
EmptySample == [v \in Values |-> 0]

\* @dataclass StatTestResult: dataframe, value, conclusion = None
StatTestResultFields == {"dataframe", "value", "conclusion"}
StatTestResultRequired == {"dataframe", "value"}

\* StatTestResult(**kwargs): [ok, obj]; a keyword that is no field, or a
\* missing required field, raises TypeError
StatTestResult(kwargs) ==
  IF DOMAIN kwargs \subseteq StatTestResultFields
       /\ StatTestResultRequired \subseteq DOMAIN kwargs
    THEN [ok |-> TRUE,
          obj |-> [f \in StatTestResultFields |->
                     IF f \in DOMAIN kwargs THEN kwargs[f] ELSE "None"]]
    ELSE [ok |-> FALSE, obj |-> NoObj]

\* pd.DataFrame(data={...}) of one row, as the variants build it
DataFrameRow(self, name, cs, ts, p, stat, concl) ==
  [test_datetime |-> "now",
   feature_name |-> self.feature_name,
   feature_type |-> "numerical",
   control_mean |-> cs.mean,
   treatment_mean |-> ts.mean,
   control_std |-> cs.std,
   treatment_std |-> ts.std,
   test_name |-> name,
   p_value |-> p,
   statistics |-> stat,
   conclusion |-> concl]

\* what one __call__ did: the exception raised ("none": it returned `ret`)
\* and the values of its local variables
Blank ==
  [called |-> FALSE, raised |-> "none", ret |-> NoObj,
   control_cut |-> EmptySample, treatment_cut |-> EmptySample,
   raw_reference |-> <<>>, raw_current |-> <<>>,
   reference_percents |-> <<>>, current_percents |-> <<>>,
   statistic |-> NaN, p_value |-> NaN, conclusion |-> "unset",
   dataframe |-> NoObj]

Raised(err) == [Blank EXCEPT !.called = TRUE, !.raised = err]

\* `return StatTestResult(...)` at the end of a __call__ whose locals are o
Returned(o, made) ==
  IF made.ok THEN [o EXCEPT !.called = TRUE, !.ret = made.obj]
  ELSE [o EXCEPT !.called = TRUE, !.raised = "TypeError"]

Return(o, kwargs) == Returned(o, StatTestResult(kwargs))

\* the locals once the statistic, the conclusion and the row are there
Locals(o, statistic, p_value, conclusion, row) ==
  [o EXCEPT !.statistic = statistic, !.p_value = p_value,
            !.conclusion = conclusion, !.dataframe = row]

\* the two samples after `if self.q:` of KLDivergence, PSI and Wasserstein
CutControl(self) ==
  IF Truthy(self.q) THEN Trim(self.control_data, self.q) ELSE self.control_data

CutTreatment(self) ==
  IF Truthy(self.q) THEN Trim(self.treatment_data, self.q) ELSE self.treatment_data

Pooled(self) == Concat(CutControl(self), CutTreatment(self))

AllZero(percents) == \A i \in DOMAIN percents : IsZero(percents[i])

\* KLDivergence lines 31-39, PSI lines 35-42: shared bin edges (k bins) over
\* the pooled samples and the mass of each sample per bin
Binned(c, t, k) ==
  [Blank EXCEPT !.control_cut = c, !.treatment_cut = t,
                !.raw_reference = Percents(c, Concat(c, t), k),
                !.raw_current = Percents(t, Concat(c, t), k)]

\* KLDivergence lines 41-55, PSI lines 44-57: zero-mass smoothing; min() of
\* an empty selection raises ValueError
Smoothed(o) ==
  IF AllZero(o.raw_reference) \/ AllZero(o.raw_current)
    THEN [o EXCEPT !.called = TRUE, !.raised = "ValueError"]
    ELSE [o EXCEPT !.reference_percents = place_zero_mass(o.raw_reference),
                   !.current_percents = place_zero_mass(o.raw_current)]

\* lines 27-55 of KLDivergence.__call__ and 24-57 of PSI.__call__: trimming,
\* binning, smoothing
BinAndSmooth(self, k) ==
  IF Truthy(self.q) /\ QuantileRaises(self.q) THEN Raised("ValueError")
  ELSE Smoothed(Binned(CutControl(self), CutTreatment(self), k))

\* a border that counts as OK (kl_divergence <= border_value)
KLConclusionInclusive(kl_divergence, border_value) ==
  IF Le(kl_divergence, border_value) THEN "OK" ELSE "FAILED"

KLConclusion(kl_divergence, border_value) ==
  IF Lt(kl_divergence, border_value) THEN "OK" ELSE "FAILED"

\* lines 84-86
KLDivergence_return(o, kl_divergence, conclusion, row) ==
  Return(Locals(o, kl_divergence, Dash, conclusion, row),
         [dataframe |-> row, value |-> kl_divergence])

\* lines 66-83
KLDivergence_report(self, o, kl_divergence, conclusion) ==
  KLDivergence_return(o, kl_divergence, conclusion,
                      DataFrameRow(self, "KL Divergence",
                                   calculate_statistics(self.control_data),
                                   calculate_statistics(self.treatment_data),
                                   Dash, kl_divergence, conclusion))

\* lines 59-64
KLDivergence_conclude(self, o, kl_divergence) ==
  KLDivergence_report(self, o, kl_divergence,
                      KLConclusion(kl_divergence, self.border_value))

\* line 57
KLDivergence_measure(self, o) ==
  IF o.raised # "none" THEN o
  ELSE KLDivergence_conclude(self, o,
                             entropy(o.reference_percents, o.current_percents))

KLDivergence_call(self, k) == KLDivergence_measure(self, BinAndSmooth(self, k))

PSIConclusion(psi_value) ==
  IF Lt(psi_value, Frac(1, 10)) THEN "OK" ELSE "FAILED"

\* lines 64-71: BaseStatisticalTest defines no dataframe_report, so line 71
\* raises AttributeError after the conclusion was computed
PSI_conclude(o, psi_value) ==
  [o EXCEPT !.called = TRUE, !.raised = "AttributeError",
            !.statistic = psi_value, !.conclusion = PSIConclusion(psi_value)]

\* lines 59-62
PSI_measure(o) ==
  IF o.raised # "none" THEN o
  ELSE PSI_conclude(o, psi_sum(o.reference_percents, o.current_percents))

PSI_call(self, k) == PSI_measure(BinAndSmooth(self, k))

PValueConclusion(p_value, alpha) ==
  IF Ge(p_value, alpha) THEN "OK" ELSE "FAILED"

\* the locals of the variants that do not cut their samples
Uncut(self) ==
  [Blank EXCEPT !.control_cut = self.control_data,
                !.treatment_cut = self.treatment_data]

\* lines 55-57
KolmogorovSmirnov_return(self, r, result_status, row) ==
  Return(Locals(Uncut(self), r.statistics, r.p_value, result_status, row),
         [dataframe |-> row, value |-> r.p_value])

\* lines 38-54
KolmogorovSmirnov_report(self, r, result_status) ==
  KolmogorovSmirnov_return(self, r, result_status,
                           DataFrameRow(self, "Kolmogorov-Smirnov test",
                                        calculate_statistics(self.control_data),
                                        calculate_statistics(self.treatment_data),
                                        r.p_value, r.statistics, result_status))

\* lines 31-36
KolmogorovSmirnov_call(self, r) ==
  KolmogorovSmirnov_report(self, r, PValueConclusion(r.p_value, self.alpha))

\* line 44: StatTestResult has no field statistics_result
MannWhitney_return(self, r, result_status, row) ==
  Return(Locals(Uncut(self), r.statistics, r.p_value, result_status, row),
         [statistics_result |-> row])

\* lines 29-43
MannWhitney_report(self, r, result_status) ==
  MannWhitney_return(self, r, result_status,
                     DataFrameRow(self, "Mann-Whitney test",
                                  calculate_statistics(self.control_data),
                                  calculate_statistics(self.treatment_data),
                                  r.p_value, r.statistics, result_status))

\* line 27
MannWhitney_call(self, r) ==
  MannWhitney_report(self, r, PValueConclusion(r.p_value, self.alpha))

\* line 48 calls self.dataframe_report, which no class defines
TTest_call(self, r) ==
  [Uncut(self) EXCEPT !.called = TRUE, !.raised = "AttributeError",
                      !.statistic = r.statistics, !.p_value = r.p_value,
                      !.conclusion = PValueConclusion(r.p_value, self.alpha)]

WassersteinConclusion(wd_result_norm) ==
  IF Lt(wd_result_norm, Frac(1, 10)) THEN "OK" ELSE "FAILED"

\* lines 73-75
Wasserstein_return(o, wd_result_norm, conclusion, row) ==
  Return(Locals(o, wd_result_norm, Dash, conclusion, row),
         [dataframe |-> row, value |-> wd_result_norm, conclusion |-> conclusion])

\* lines 57-72
Wasserstein_report(self, o, wd_result_norm, conclusion) ==
  Wasserstein_return(o, wd_result_norm, conclusion,
                     DataFrameRow(self, "Wasserstein distance",
                                  calculate_statistics(o.control_cut),
                                  calculate_statistics(o.treatment_cut),
                                  Dash, wd_result_norm, conclusion))

\* lines 50-55
Wasserstein_conclude(self, o, wd_result_norm) ==
  Wasserstein_report(self, o, wd_result_norm, WassersteinConclusion(wd_result_norm))

\* lines 39-48: wasserstein_distance raises ValueError on an empty sample
Wasserstein_measure(self, o) ==
  IF Size(o.control_cut) = 0 \/ Size(o.treatment_cut) = 0
    THEN [o EXCEPT !.called = TRUE, !.raised = "ValueError"]
    ELSE Wasserstein_conclude(self, o,
           Div(wasserstein_distance(o.control_cut, o.treatment_cut),
               PyMax(Std(o.control_cut), Shift(One, 3))))

\* lines 26-37
Wasserstein_cut(c, t) == [Blank EXCEPT !.control_cut = c, !.treatment_cut = t]

Wasserstein_call(self) ==
  IF Truthy(self.q) /\ QuantileRaises(self.q) THEN Raised("ValueError")
  ELSE Wasserstein_measure(self, Wasserstein_cut(CutControl(self), CutTreatment(self)))

\* every result one __call__ of the test object can have
Outcomes(self) ==
  CASE self.cls = "KLDivergence" ->
         {KLDivergence_call(self, k) : k \in BinChoices(Pooled(self))}
    [] self.cls = "PSI" ->
         {PSI_call(self, k) : k \in BinChoices(Pooled(self))}
    [] self.cls = "KolmogorovSmirnov" ->
         {KolmogorovSmirnov_call(self, r) :
            r \in ks_2samp(self.control_data, self.treatment_data)}
    [] self.cls = "MannWhitney" ->
         {MannWhitney_call(self, r) :
            r \in mannwhitneyu(self.control_data, self.treatment_data)}
    [] self.cls = "TTest" ->
         {TTest_call(self, r) :
            r \in ttest_ind(self.control_data, self.treatment_data)}
    [] self.cls = "Wasserstein" -> {Wasserstein_call(self)}

\* ------------------------------------------------------------ test objects
Classes == {"KLDivergence", "PSI", "KolmogorovSmirnov", "MannWhitney", "TTest",
            "Wasserstein"}

\* the quantile cuts, significance levels and borders tried
QChoices == {Zero, Frac(1, 2), One}
AlphaChoices == {Frac(1, 20), One}
BorderChoices == {Frac(1, 10), Zero}

\* the dataclass fields of each class; a field a class does not have is held
\* at its default
HasField(cls, f) ==
  CASE f = "alpha" -> cls \in {"KolmogorovSmirnov", "MannWhitney", "TTest"}
    [] f = "border_value" -> cls = "KLDivergence"
    [] f = "q" -> cls # "MannWhitney"
    [] f = "var" -> cls = "TTest"

NewTest(cls, control, treatment, alpha, border_value, q, var) ==
  [cls |-> cls, control_data |-> control, treatment_data |-> treatment,
   feature_name |-> "UNKNOWN_FEATURE", alpha |-> alpha,
   border_value |-> border_value, q |-> q, var |-> var]

NoTest == NewTest("none", EmptySample, EmptySample, Frac(1, 20), Frac(1, 10), Zero, FALSE)

\* test: the drift test object; out: what its __call__ did
\* boot: one call of mean_bootstrap; checker: the TableDriftChecker;
\* run: what its run_statistics and results calls did
\* process: the state of numpy's global random generator and the Welch
\* invocations made so far in the process
VARIABLES test, out, boot, checker, run, process

vars == <<test, out, boot, checker, run, process>>

\* ------------------------------------------------- one drift test invocation
NoBoot == [data |-> EmptySample, size |-> 0, ret |-> <<>>, returned |-> FALSE]

NoResults == [set |-> FALSE, rows |-> <<>>]

NoChecker ==
  [made |-> FALSE, numerical |-> <<>>, dtypes |-> <<>>, nan_strategy |-> "",
   data_control |-> <<>>, data_treatment |-> <<>>, given_treatment |-> <<>>,
   health_calls |-> <<>>, _results |-> NoResults]

NoRun ==
  [called |-> FALSE, tests |-> <<>>, features |-> <<>>, show_result |-> FALSE,
   raised |-> "none", pairs |-> <<>>, invoked |-> <<>>, records |-> <<>>,
   result_numerical |-> <<>>, returned |-> FALSE, ret |-> <<>>,
   results_called |-> FALSE, results_ret |-> NoResults]

NoProcess == [rng |-> 0, calls |-> <<>>]

Init ==
  /\ test = NoTest
  /\ out = Blank
  /\ boot = NoBoot
  /\ checker = NoChecker
  /\ run = NoRun
  /\ process = NoProcess

\* cls(control_data=..., treatment_data=..., ...)
Construct ==
  /\ test = NoTest
  /\ \E cls \in Classes, control \in Samples, treatment \in Samples :
       \E alpha \in IF HasField(cls, "alpha") THEN AlphaChoices ELSE {Frac(1, 20)},
          border_value \in IF HasField(cls, "border_value") THEN BorderChoices
                          ELSE {Frac(1, 10)},
          q \in IF HasField(cls, "q") THEN QChoices ELSE {Zero},
          var \in IF HasField(cls, "var") THEN BOOLEAN ELSE {FALSE} :
         test' = NewTest(cls, control, treatment, alpha, border_value, q, var)
  /\ out' = Blank
  /\ UNCHANGED <<boot, checker, run, process>>

\* a __call__ that would keep its cut samples in place of its inputs
SelfAfterCutInPlace(self, o) ==
  [self EXCEPT !.control_data = o.control_cut, !.treatment_data = o.treatment_cut]

\* the test object after a __call__ that did o: no __call__ assigns an
\* attribute of self; data[data < ...] and np.histogram(...)[0] / len(...)
\* build new objects, np.place writes into the new mass array and
\* np.random.choice copies
SelfAfter(self, o) == self

\* test()
Call ==
  /\ test.cls \in Classes
  /\ ~out.called
  /\ \E o \in Outcomes(test) :
       /\ out' = o
       /\ test' = SelfAfter(test, o)
  /\ UNCHANGED <<boot, checker, run, process>>

Next == Construct \/ Call

Spec == Init /\ [][Next]_vars

\* ------------------------------------- binning and smoothing, large samples
\* samples large enough for a mass of 1e-4 and less
BigCounts == {0, 1, 9999}

BigSamples == {s \in [Values -> BigCounts] : \E v \in Values : s[v] > 0}

InitSmooth ==
  /\ test \in {NewTest(cls, control, treatment, Frac(1, 20), Frac(1, 10), q, FALSE) :
                 cls \in {"KLDivergence", "PSI"}, control \in BigSamples,
                 treatment \in BigSamples, q \in QChoices}
  /\ out = Blank
  /\ boot = NoBoot
  /\ checker = NoChecker
  /\ run = NoRun
  /\ process = NoProcess

\* KLDivergence.__call__ lines 27-55, PSI.__call__ lines 24-57
BinSmooth ==
  /\ out = Blank
  /\ out' \in {BinAndSmooth(test, k) : k \in BinChoices(Pooled(test))}
  /\ UNCHANGED <<test, boot, checker, run, process>>

SpecSmooth == InitSmooth /\ [][BinSmooth]_vars

\* ---------------------------------------------------------- mean_bootstrap
\* largest number of resamples asked for
MaxResamples == 2

\* the arrays mean_bootstrap(data, size) can return; each entry also records
\* how many values its resample drew
mean_bootstrap(data, size) == [1..size -> Resamples(data)]

InitBoot ==
  /\ boot \in {[NoBoot EXCEPT !.data = data, !.size = size] :
                 data \in Samples, size \in 0..MaxResamples}
  /\ test = NoTest
  /\ out = Blank
  /\ checker = NoChecker
  /\ run = NoRun
  /\ process = NoProcess

MeanBootstrap ==
  /\ ~boot.returned
  /\ \E means \in mean_bootstrap(boot.data, boot.size) :
       boot' = [boot EXCEPT !.ret = means, !.returned = TRUE]
  /\ UNCHANGED <<test, out, checker, run, process>>

SpecBoot == InitBoot /\ [][MeanBootstrap]_vars

\* ------------------------------------------------------- TableDriftChecker
\* the columns of the two tables and the samples a column may hold
Columns == {"a", "b"}

\* a cell of a table: <<v>> holds the value v, <<>> is a missing value (NaN)
NA == <<>>

\* a table (DataFrame) is a sequence of rows, a row gives each column a cell
HasMissing(table) ==
  \E i \in DOMAIN table : \E c \in Columns : table[i][c] = NA

\* table[column] as a sample: the values of the column that are not missing
Column(table, c) ==
  [v \in Values |-> Cardinality({i \in DOMAIN table : table[i][c] = <<v>>})]

\* a table of two rows, the first holding 0 in both columns
TwoRows(x, y) ==
  <<[c \in Columns |-> <<0>>], [c \in Columns |-> IF c = "a" THEN x ELSE y]>>

\* the tables without missing values handed to the checker
CompleteTables == {TwoRows(<<x>>, <<y>>) : x \in {1, 2}, y \in {1, 2}}

\* the table with the value of column a missing in its second row
MissingA(table) == [table EXCEPT ![2]["a"] = NA]

\* DataFrame.dropna(): the rows without a missing value
dropna(table) == SelectSeq(table, LAMBDA row : \A c \in Columns : row[c] # NA)

\* Series.mean() of a control column as a cell (missing values are skipped;
\* the tables tried have columns with a whole mean)
MeanCell(col) ==
  IF Size(col) = 0 THEN NA
  ELSE <<CHOOSE v \in Values : Eq(Frac(v, 1), Mean(col))>>

\* Series.mode().iloc[0]: the smallest of the most frequent values
ModeCell(col) ==
  <<MinOf({v \in Support(col) : \A w \in Values : col[w] <= col[v]})>>

InSeq(x, l) == \E i \in DOMAIN l : l[i] = x

\* a fill value that goes by data_config: the mean for the columns listed as
\* numerical, the mode for the others
fill_value_by_config(self, c) ==
  IF InSeq(c, self.numerical)
    THEN MeanCell(Column(self.data_control, c))
    ELSE ModeCell(Column(self.data_control, c))

\* lines 144-147: the fill value is chosen by the dtype of the column
fill_value(self, c) ==
  IF self.dtypes[c] \in {"float64", "int64"}
    THEN MeanCell(Column(self.data_control, c))
    ELSE ModeCell(Column(self.data_control, c))

\* lines 142-150: fillna on every column that has a missing value
Filled(self) ==
  [i \in DOMAIN self.data_treatment |->
     [c \in Columns |->
        IF self.data_treatment[i][c] = NA THEN fill_value(self, c)
        ELSE self.data_treatment[i][c]]]

\* lines 128-151 of run_data_health.  The two tables have the same columns
\* and dtypes, so the checks of lines 99-126 pass.
CleanTreatment(self, clean_data) ==
  IF ~HasMissing(self.data_treatment) THEN self.data_treatment
  ELSE IF self.nan_strategy = "remove" /\ clean_data THEN dropna(self.data_treatment)
  ELSE IF self.nan_strategy = "fill" /\ clean_data THEN Filled(self)
  ELSE self.data_treatment

run_data_health(self, clean_data) ==
  [self EXCEPT !.data_treatment = CleanTreatment(self, clean_data),
               !.health_calls = Append(@, clean_data)]

\* line 68: self.run_data_health()
clean_data_default == FALSE

\* TableDriftChecker.__init__, lines 52-68
TableDriftChecker(data_control, data_treatment, numerical, dtypes, nan_strategy) ==
  [run_data_health([NoChecker EXCEPT !.made = TRUE, !.numerical = numerical,
                                     !.dtypes = dtypes,
                                     !.nan_strategy = nan_strategy,
                                     !.data_control = data_control,
                                     !.data_treatment = data_treatment,
                                     !.given_treatment = data_treatment],
                   clean_data_default)
     EXCEPT !.health_calls = <<>>]

\* a check that looks at the control table only
check_nan_control_only(self) ==
  IF HasMissing(self.data_control) THEN "ValueError" ELSE "none"

\* lines 162-165
check_nan(self) ==
  IF HasMissing(self.data_control) \/ HasMissing(self.data_treatment)
    THEN "ValueError" ELSE "none"

\* data_config.numerical
NumericalChoices == {<<"a">>, <<"a", "b">>}

\* largest number of tests handed to run_statistics
MaxTests == 2

TestLists == UNION {[1..n -> Classes] : n \in 0..MaxTests}

\* the `features` argument: None, a list of column names, or something else
FeatureChoices ==
  {[kind |-> "None", items |-> <<>>], [kind |-> "str", items |-> <<>>]}
    \cup {[kind |-> "list", items |-> l] : l \in {<<>>, <<"a">>, <<"b">>, <<"b", "a">>}}

\* TableDriftChecker(data_control, data_treatment, data_config); the health
\* check at construction runs with clean_data = False and changes nothing
NewChecker ==
  /\ ~checker.made
  /\ \E data_control \in CompleteTables, data_treatment \in CompleteTables,
        numerical \in NumericalChoices,
        nan \in {"none", "control", "treatment"} :
       checker' = TableDriftChecker(
                    IF nan = "control" THEN MissingA(data_control) ELSE data_control,
                    IF nan = "treatment" THEN MissingA(data_treatment)
                    ELSE data_treatment,
                    numerical, [c \in Columns |-> "float64"], "remove")
  /\ UNCHANGED <<test, out, boot, run, process>>

\* the (test, column) pairs of the two loops, in order: `for test_name in
\* tests: for column in features: if column in self.data_config.numerical`
PairsOfTest(test_name, features, numerical) ==
  [i \in DOMAIN SelectSeq(features, LAMBDA c : InSeq(c, numerical)) |->
     <<test_name, SelectSeq(features, LAMBDA c : InSeq(c, numerical))[i]>>]

RECURSIVE Pairs(_, _, _)
Pairs(tests, features, numerical) ==
  IF tests = <<>> THEN <<>>
  ELSE PairsOfTest(Head(tests), features, numerical)
         \o Pairs(Tail(tests), features, numerical)

\* test_name(control_data=self.data_control[column],
\*           treatment_data=self.data_treatment[column], feature_name=column)
TestOf(self, pair) ==
  [NewTest(pair[1], Column(self.data_control, pair[2]),
           Column(self.data_treatment, pair[2]),
           Frac(1, 20), Frac(1, 10), Zero, FALSE)
     EXCEPT !.feature_name = pair[2]]

\* round(4) of a number
Round4(x) ==
  IF x.d = 0 THEN x
  ELSE Frac(((20000 * x.n) \div (x.d * Pow10(x.e)) + 1) \div 2, 10000)

RoundRow(row) ==
  [f \in DOMAIN row |->
     IF f \in {"control_mean", "treatment_mean", "control_std", "treatment_std",
               "statistics", "p_value"}
       THEN Round4(row[f]) ELSE row[f]]

\* result_numerical[[...]] = result_numerical[[...]].round(4)
RoundColumns(rows) == [i \in DOMAIN rows |-> RoundRow(rows[i])]

\* sort_values("conclusion", ascending=True).reset_index(drop=True)
SortByConclusion(rows) ==
  SelectSeq(rows, LAMBDA r : r.conclusion = "FAILED")
    \o SelectSeq(rows, LAMBDA r : r.conclusion # "FAILED")

\* lines 244-255: an empty frame has no column "conclusion" to sort by
Finish(r) ==
  IF r.result_numerical = <<>> THEN [r EXCEPT !.raised = "KeyError"]
  ELSE [r EXCEPT !.returned = TRUE, !.ret = SortByConclusion(r.result_numerical)]

\* lines 207-242: the runs the loops can make from pair `rest` on.  Nothing
\* catches what an invocation raises; a returned StatTestResult has no
\* attribute statistics_result, so line 220 raises AttributeError
RECURSIVE RunLoop(_, _, _)
RECURSIVE Step(_, _, _, _)
Step(self, r, rest, o) ==
  IF o.raised # "none"
    THEN {[r EXCEPT !.raised = o.raised, !.invoked = Append(@, Head(rest))]}
  ELSE IF "statistics_result" \notin DOMAIN o.ret
    THEN {[r EXCEPT !.raised = "AttributeError", !.invoked = Append(@, Head(rest)),
                    !.records = Append(@, o.ret.dataframe)]}
  ELSE RunLoop(self,
               [r EXCEPT !.invoked = Append(@, Head(rest)),
                         !.records = Append(@, o.ret.statistics_result),
                         !.result_numerical =
                            RoundColumns(Append(@, o.ret.statistics_result))],
               Tail(rest))

RunLoop(self, r, rest) ==
  IF rest = <<>> THEN {Finish(r)}
  ELSE UNION {Step(self, r, rest, o) : o \in Outcomes(TestOf(self, Head(rest)))}

RunPairs(self, r, pairs) == RunLoop(self, [r EXCEPT !.pairs = pairs], pairs)

\* lines 198-205
Started(tests, features, show_result) ==
  [NoRun EXCEPT !.called = TRUE, !.tests = tests, !.features = features,
                !.show_result = show_result]

\* `if not features: features = self.data_config.numerical`
FeaturesOrNumerical(self, features) ==
  IF features.items = <<>> THEN self.numerical ELSE features.items

\* every run run_statistics(tests, features, show_result) can make
run_statistics(self, tests, features, show_result) ==
  IF features.kind \notin {"list", "None"}
    THEN {[Started(tests, features, show_result) EXCEPT !.raised = "TypeError"]}
  ELSE IF check_nan(self) # "none"
    THEN {[Started(tests, features, show_result) EXCEPT !.raised = check_nan(self)]}
  ELSE RunPairs(self, Started(tests, features, show_result),
                Pairs(tests, FeaturesOrNumerical(self, features), self.numerical))

\* self._results = result, on the runs that get to line 246
Stored(self, r) ==
  IF r.returned THEN [self EXCEPT !._results = [set |-> TRUE, rows |-> r.ret]]
  ELSE self

RunStatisticsWith(test_lists, feature_choices, show_choices) ==
  /\ checker.made
  /\ ~run.called
  /\ \E tests \in test_lists, features \in feature_choices,
        show_result \in show_choices :
       \E r \in run_statistics(checker, tests, features, show_result) :
         /\ run' = [r EXCEPT !.results_called = run.results_called,
                             !.results_ret = run.results_ret]
         /\ checker' = Stored(checker, r)
  /\ UNCHANGED <<test, out, boot, process>>

RunStatistics == RunStatisticsWith(TestLists, FeatureChoices, BOOLEAN)

NotRunnedYet == [set |-> FALSE, rows |-> <<"Not runned yet">>]

\* lines 307-311
results(self) == IF self._results.set THEN self._results ELSE NotRunnedYet

\* results()
Results ==
  /\ checker.made
  /\ ~run.results_called
  /\ run' = [run EXCEPT !.results_called = TRUE, !.results_ret = results(checker)]
  /\ UNCHANGED <<test, out, boot, checker, process>>

NextRunner == NewChecker \/ RunStatistics \/ Results

SpecRunner == Init /\ [][NextRunner]_vars

\* ------------------------------------------ the checker's missing values
\* largest number of run_data_health calls made on one checker
MaxHealthCalls == 2

\* control tables: 0 and 2 in both columns, with or without a missing value
HealthControlTables == {TwoRows(<<2>>, <<2>>), MissingA(TwoRows(<<2>>, <<2>>))}

\* treatment tables of three rows: a first row of zeros, then two rows whose
\* cells hold 1 or are missing
HealthTreatmentTables ==
  {<<[c \in Columns |-> <<0>>], r2, r3>> : r2, r3 \in [Columns -> {<<1>>, NA}]}

\* data_config.numerical and the dtypes of the columns: column b is a float
\* numerical column, a float column listed as categorical, or an object column
HealthConfigs ==
  {[numerical |-> <<"a", "b">>, dtypes |-> [c \in Columns |-> "float64"]],
   [numerical |-> <<"a">>, dtypes |-> [c \in Columns |-> "float64"]],
   [numerical |-> <<"a">>,
    dtypes |-> [c \in Columns |-> IF c = "a" THEN "float64" ELSE "object"]]}

\* data_config.nan_strategy
NanStrategies == {"remove", "fill"}

HealthTestLists == {<<>>, <<"KolmogorovSmirnov">>, <<"Wasserstein">>}

HealthFeatureChoices ==
  {[kind |-> "None", items |-> <<>>], [kind |-> "str", items |-> <<>>],
   [kind |-> "list", items |-> <<"b", "a">>]}

InitHealth ==
  /\ checker \in {TableDriftChecker(data_control, data_treatment, config.numerical,
                                     config.dtypes, nan_strategy) :
                     data_control \in HealthControlTables,
                     data_treatment \in HealthTreatmentTables,
                     config \in HealthConfigs, nan_strategy \in NanStrategies}
  /\ test = NoTest
  /\ out = Blank
  /\ boot = NoBoot
  /\ run = NoRun
  /\ process = NoProcess

\* run_data_health(clean_data)
RunDataHealth ==
  /\ checker.made
  /\ Len(checker.health_calls) < MaxHealthCalls
  /\ \E clean_data \in BOOLEAN : checker' = run_data_health(checker, clean_data)
  /\ UNCHANGED <<test, out, boot, run, process>>

RunStatisticsAfterHealth ==
  RunStatisticsWith(HealthTestLists, HealthFeatureChoices, {FALSE})

NextHealth == RunDataHealth \/ RunStatisticsAfterHealth \/ Results

SpecHealth == InitHealth /\ [][NextHealth]_vars

\* --------------------------------------- the process-wide random generator
\* np.random.choice draws from numpy's global generator, whose state every
\* draw in the process reads and advances.  The generator stands here as a
\* linear congruential one with eight states.
RngStates == 0..7

NextRng(s) == (5 * s + 3) % 8

\* largest number of Welch invocations in one process
MaxCalls == 2

\* samples of five values 0 or 1: int(5 * 0.2) = 1 value per resample
GenSamples == {s \in [Values -> 0..3] : s[2] = 0 /\ Size(s) = 5}

\* np.random.choice(data, 1) with the generator in state s
Choice(data, s) == OrderStat(data, s % Size(data))

\* mean_bootstrap(data, 2) started with the generator in state s: the means
\* of two resamples of one value each
BootstrapFrom(data, s) ==
  <<Frac(Choice(data, s), 1), Frac(Choice(data, NextRng(s)), 1)>>

\* t of a constant array <<c, c>> against <<x, y>> with x # y, as a number:
\* (c - (x + y) / 2) / (|x - y| / 2)
TOfConstant(c, x, y) == Frac(2 * c.n - x.n - y.n, Abs(x.n - y.n))

\* scipy.stats.ttest_ind(a, b, equal_var) for two arrays of two means 0 or 1.
\* Two constant arrays divide by a zero variance: NaN when they are equal,
\* an infinite statistic and p = 0 otherwise.  Two non-constant arrays have
\* the same mean 1/2: t = 0 and p = 1.  One constant array gives |t| = 1,
\* p = 0.5 with Welch's one degree of freedom and 0.4226 with Student's two.
ttest_ind_means(a, b, equal_var) ==
  IF a[1] = a[2] /\ b[1] = b[2]
    THEN IF a[1] = b[1] THEN [statistics |-> NaN, p_value |-> NaN]
         ELSE [statistics |-> Inf, p_value |-> Zero]
  ELSE IF a[1] # a[2] /\ b[1] # b[2]
    THEN [statistics |-> Zero, p_value |-> One]
  ELSE [statistics |-> IF a[1] = a[2] THEN TOfConstant(a[1], b[1], b[2])
                       ELSE TOfConstant(b[1], a[2], a[1]),
        p_value |-> IF equal_var THEN Frac(4226, 10000) ELSE Frac(1, 2)]

\* TTest.__call__ with the generator in state s: the control resamples are
\* drawn first, the treatment resamples next
TTest_call_from(self, s) ==
  TTest_call(self, ttest_ind_means(BootstrapFrom(self.control_data, s),
                                   BootstrapFrom(self.treatment_data,
                                                 NextRng(NextRng(s))),
                                   self.var))

\* the generator after the four draws of one TTest.__call__
AfterCall(s) == NextRng(NextRng(NextRng(NextRng(s))))

InitProcess ==
  /\ process \in {[rng |-> s, calls |-> <<>>] : s \in RngStates}
  /\ test = NoTest
  /\ out = Blank
  /\ boot = NoBoot
  /\ checker = NoChecker
  /\ run = NoRun

\* TTest(control_data=..., treatment_data=..., var=..., alpha=...)()
InvokeTTest ==
  /\ Len(process.calls) < MaxCalls
  /\ \E control \in GenSamples, treatment \in GenSamples, var \in BOOLEAN,
        alpha \in AlphaChoices :
       process' =
         [rng |-> AfterCall(process.rng),
          calls |-> Append(process.calls,
                           [test |-> NewTest("TTest", control, treatment, alpha,
                                             Frac(1, 10), Zero, var),
                            out |-> TTest_call_from(
                                      NewTest("TTest", control, treatment, alpha,
                                              Frac(1, 10), Zero, var),
                                      process.rng)])]
  /\ UNCHANGED <<test, out, boot, checker, run>>

SpecProcess == InitProcess /\ [][InvokeTTest]_vars

\* ------------------------------------------- properties of one invocation
\* the comparison each class makes between its statistic or p-value and its
\* threshold
Threshold(cls, statistic, p_value, alpha, border_value) ==
  CASE cls = "KLDivergence" -> Lt(statistic, border_value)
    [] cls \in {"PSI", "Wasserstein"} -> Lt(statistic, Frac(1, 10))
    [] OTHER -> Ge(p_value, alpha)

Verdict(passed) == IF passed THEN "OK" ELSE "FAILED"

\* C1: whenever a __call__ got to its conclusion, the conclusion is OK exactly
\* when the class's comparison of the statistic (KL: < border_value, PSI and
\* Wasserstein: < 0.1) or of the p-value (the others: >= alpha) holds, and
\* FAILED otherwise; a returned record carries this conclusion together with
\* the statistic and p-value it was derived from.
C1_ConclusionIsThreshold ==
  /\ out.conclusion # "unset" =>
       out.conclusion = Verdict(Threshold(test.cls, out.statistic, out.p_value,
                                          test.alpha, test.border_value))
  /\ (out.called /\ out.raised = "none") =>
       /\ out.ret.dataframe.conclusion
            = Verdict(Threshold(test.cls, out.ret.dataframe.statistics,
                                out.ret.dataframe.p_value, test.alpha,
                                test.border_value))
       /\ out.ret.dataframe.feature_name = test.feature_name

\* a KL divergence equal to the border gives FAILED
C1_Witness ==
  /\ test.cls = "KLDivergence"
  /\ out.called /\ out.raised = "none"
  /\ Eq(out.statistic, test.border_value)
  /\ out.ret.dataframe.conclusion = "FAILED"

\* C2: one invocation of any of the six classes on two non-constant samples,
\* without quantile cut, returns a result whose record has the eleven fields
\* of a row.
C2_EveryVariantReturnsARecord ==
  (out.called /\ ~IsConstant(test.control_data) /\ ~IsConstant(test.treatment_data)
     /\ ~Truthy(test.q)) =>
    /\ out.raised = "none"
    /\ "dataframe" \in DOMAIN out.ret
    /\ DOMAIN out.ret.dataframe
         = {"test_datetime", "feature_name", "feature_type", "control_mean",
            "treatment_mean", "control_std", "treatment_std", "test_name",
            "p_value", "statistics", "conclusion"}

\* C5: a sample compared with itself (the KL border being positive) gives a
\* returned record with conclusion OK, and statistic 0 for KL, PSI and
\* Wasserstein.
C5_IdenticalSamplesAreOK ==
  (out.called /\ test.control_data = test.treatment_data
     /\ Lt(Zero, test.border_value)) =>
    /\ out.raised = "none"
    /\ out.conclusion = "OK"
    /\ test.cls \in {"KLDivergence", "PSI", "Wasserstein"} => IsZero(out.statistic)

Positive(percents) == \A i \in DOMAIN percents : Lt(Zero, percents[i])

\* C6: after smoothing every entry of both mass vectors is strictly positive.
C6_SmoothedMassIsPositive ==
  out.reference_percents # <<>> =>
    Positive(out.reference_percents) /\ Positive(out.current_percents)

\* the mass smoothing added: the sum of the entries put into the empty bins
Placed(raw, new) ==
  SumNum([i \in DOMAIN raw |-> IF IsZero(raw[i]) THEN new[i] ELSE Zero],
         Cardinality(DOMAIN raw))

SumAfterSmoothing(raw, new) ==
  IF HasNaN(raw) THEN new = raw
  ELSE /\ Eq(Total(raw), One)
       /\ Eq(Total(new), Add(One, Placed(raw, new)))
       /\ Eq(Total(new), One) <=> ~(\E i \in DOMAIN raw : IsZero(raw[i]))

\* C7: the mass vector of a sample sums to 1 before smoothing; after
\* smoothing it sums to 1 plus the floor value times the number of bins that
\* were empty, which is 1 only when no bin was empty.  A sample the quantile
\* cut emptied has a vector of NaN, which smoothing leaves as it is.
C7_SumAfterSmoothing ==
  out.reference_percents # <<>> =>
    /\ SumAfterSmoothing(out.raw_reference, out.reference_percents)
    /\ SumAfterSmoothing(out.raw_current, out.current_percents)

\* a sample with an empty bin that smoothing filled
C7_Witness ==
  /\ out.reference_percents # <<>>
  /\ ~HasNaN(out.raw_reference)
  /\ \E i \in DOMAIN out.raw_reference : IsZero(out.raw_reference[i])
  /\ Lt(One, Total(out.reference_percents))

\* C7 as stated, for samples that are not cut: both smoothed vectors sum to 1
C7_AsStated ==
  (out.reference_percents # <<>> /\ ~Truthy(test.q)) =>
    Eq(Total(out.reference_percents), One) /\ Eq(Total(out.current_percents), One)

\* what the cut of a sample by its own q-quantile must be
CutByOwnQuantile(data, cut, q) ==
  /\ SubBag(cut, data)
  /\ Size(cut) <= Size(data)
  /\ \A v \in Values :
       cut[v] = IF Lt(Frac(v, 1), Quantile(data, q)) THEN data[v] ELSE 0

\* C9: with q set on KL, PSI or Wasserstein each sample is cut by its own
\* q-quantile: the values kept are those strictly below it, they are a
\* sub-multiset of the sample, and there are no more of them than before.
C9_TrimByOwnQuantile ==
  (out.called /\ test.cls \in {"KLDivergence", "PSI", "Wasserstein"}
     /\ Truthy(test.q)) =>
    /\ CutByOwnQuantile(test.control_data, out.control_cut, test.q)
    /\ CutByOwnQuantile(test.treatment_data, out.treatment_cut, test.q)

\* two samples with different quantiles, each losing some values and keeping
\* others
C9_Witness ==
  /\ out.called /\ test.cls = "Wasserstein" /\ Truthy(test.q)
  /\ ~Eq(Quantile(test.control_data, test.q), Quantile(test.treatment_data, test.q))
  /\ 0 < Size(out.control_cut) /\ Size(out.control_cut) < Size(test.control_data)
  /\ 0 < Size(out.treatment_cut)
  /\ Size(out.treatment_cut) < Size(test.treatment_data)

\* ------------------------------------------------ properties of smoothing
\* the smallest strictly positive entry of a vector that has one
SmallestPositive(percents) ==
  CHOOSE m \in {percents[i] : i \in DOMAIN percents} :
    /\ Lt(Zero, m)
    /\ \A j \in DOMAIN percents : Lt(Zero, percents[j]) => Le(m, percents[j])

RuleFloor(m) == IF Le(m, Shift(One, 4)) THEN Shift(m, 6) ELSE Shift(One, 4)

SmoothedByRule(raw, new) ==
  \A i \in DOMAIN raw :
    new[i] = IF IsZero(raw[i]) THEN RuleFloor(SmallestPositive(raw)) ELSE raw[i]

\* C8: in each smoothed vector every zero entry of the raw vector is replaced
\* by m / 10^6 when m <= 1e-4 and by 1e-4 otherwise, m being the smallest
\* positive entry of that same raw vector, and every other entry is kept.
C8_SmoothingRule ==
  out.reference_percents # <<>> =>
    /\ SmoothedByRule(out.raw_reference, out.reference_percents)
    /\ SmoothedByRule(out.raw_current, out.current_percents)

\* one vector with smallest mass exactly 1e-4 (floor 1e-10), the other with a
\* larger smallest mass (floor 1e-4)
C8_Witness ==
  /\ out.reference_percents # <<>>
  /\ \E i \in DOMAIN out.raw_reference :
       /\ IsZero(out.raw_reference[i])
       /\ out.reference_percents[i] = Shift(Frac(1, 10000), 6)
  /\ \E j \in DOMAIN out.raw_current :
       /\ IsZero(out.raw_current[j])
       /\ out.current_percents[j] = Shift(One, 4)

\* ------------------------------------------- properties of mean_bootstrap
Between(x, lo, hi) == Le(Frac(lo, 1), x) /\ Le(x, Frac(hi, 1))

\* C10: mean_bootstrap(data, size) returns size means, each of
\* floor(len(data) / 5) values drawn with replacement; for len(data) >= 5
\* each mean lies between the minimum and the maximum of data, for
\* len(data) < 5 nothing is drawn and each mean is NaN.
C10_BootstrapDraws ==
  boot.returned =>
    /\ Len(boot.ret) = boot.size
    /\ \A i \in DOMAIN boot.ret :
         /\ boot.ret[i].draws = Size(boot.data) \div 5
         /\ IF Size(boot.data) < 5 THEN IsNaN(boot.ret[i].mean)
            ELSE Between(boot.ret[i].mean, MinOf(Support(boot.data)),
                         MaxOf(Support(boot.data)))

\* two different means of resamples of a sample of five values or more
C10_Witness ==
  /\ boot.returned
  /\ Size(boot.data) >= 5
  /\ Len(boot.ret) = 2
  /\ Lt(boot.ret[1].mean, boot.ret[2].mean)

\* C10 as stated: size means, each of round(0.2 * len(data)) draws and each
\* a number between the minimum and the maximum of data
C10_AsStated ==
  boot.returned =>
    /\ Len(boot.ret) = boot.size
    /\ \A i \in DOMAIN boot.ret :
         /\ boot.ret[i].draws = (2 * Size(boot.data) + 5) \div 10
         /\ Between(boot.ret[i].mean, MinOf(Support(boot.data)),
                    MaxOf(Support(boot.data)))

\* ------------------------------------------- properties of run_statistics
\* C3: a run of run_statistics over two or more (test, feature) pairs that
\* invoked a test goes on to invoke every pair of the batch and returns the
\* table, whatever one invocation did.
C3_BatchSurvivesAFailure ==
  (run.called /\ run.invoked # <<>> /\ Len(run.pairs) >= 2) =>
    /\ run.invoked = run.pairs
    /\ run.returned

\* C4: the aggregated table has one row for each invocation that returned a
\* record, equal in every field to that record.
C4_OneUnchangedRowPerInvocation ==
  (run.called /\ run.records # <<>>) =>
    /\ Len(run.result_numerical) = Len(run.records)
    /\ \A i \in DOMAIN run.records : run.result_numerical[i] = run.records[i]

C12_SameInputsSameResult ==
  \A i \in DOMAIN process.calls, j \in DOMAIN process.calls :
    process.calls[i].test = process.calls[j].test =>
      /\ process.calls[i].out.statistic = process.calls[j].out.statistic
      /\ process.calls[i].out.p_value = process.calls[j].out.p_value
      /\ process.calls[i].out.conclusion = process.calls[j].out.conclusion

\* ------------------------------------------- properties of the quantile cut
\* C13: a __call__ of KLDivergence, PSI or Wasserstein whose q is not
\* strictly between 0 and 1 returns no record.
C13_CutOutsideOpenIntervalFails ==
  (out.called /\ test.cls \in {"KLDivergence", "PSI", "Wasserstein"}
     /\ (Le(test.q, Zero) \/ Ge(test.q, One))) =>
    out.ret = NoObj

\* C14: no KolmogorovSmirnov, MannWhitney or TTest object that holds a set q
\* is called and returns a record.
C14_CutRejectedWhereUnsupported ==
  (out.called /\ test.cls \in {"KolmogorovSmirnov", "MannWhitney", "TTest"}
     /\ Truthy(test.q)) =>
    out.ret = NoObj

\* -------------------------------------- properties of the Wasserstein norm
\* C15: a Wasserstein __call__ whose control sample, after the cut, holds two
\* or more values that are all equal (standard deviation 0) returns no record.
C15_ZeroVarianceControlFails ==
  (out.called /\ test.cls = "Wasserstein" /\ Size(out.control_cut) >= 2
     /\ IsZero(Std(out.control_cut))) =>
    out.ret = NoObj

\* ------------------------------------------- properties of missing values
\* C16: a call of run_statistics with `features` a list or None on a checker
\* whose control or treatment table holds a missing value raises ValueError
\* before any test is invoked, and leaves _results, and with it what
\* results() returns, as they were.
C16_MissingValuesStopTheRun ==
  [][(~run.called /\ run'.called
        /\ (HasMissing(checker.data_control) \/ HasMissing(checker.data_treatment))
        /\ run'.features.kind \in {"list", "None"}) =>
       /\ run'.raised = "ValueError"
       /\ run'.invoked = <<>>
       /\ checker'._results = checker._results
       /\ results(checker') = results(checker)]_vars

\* a run with a test to invoke, stopped by a missing treatment value, after
\* which results() says that nothing has run
C16_Witness ==
  /\ run.called /\ run.raised = "ValueError" /\ run.invoked = <<>>
  /\ run.tests # <<>> /\ run.pairs = <<>>
  /\ HasMissing(checker.data_treatment) /\ ~HasMissing(checker.data_control)
  /\ run.results_called /\ run.results_ret = NotRunnedYet

\* C16 as stated, for every `features` argument
C16_AsStated ==
  [][(~run.called /\ run'.called
        /\ (HasMissing(checker.data_control) \/ HasMissing(checker.data_treatment))) =>
       /\ run'.raised = "ValueError"
       /\ run'.invoked = <<>>
       /\ checker'._results = checker._results]_vars

\* a step that is run_data_health(clean_data=True) under the given strategy
CleaningStep(old, new, strategy) ==
  /\ old.nan_strategy = strategy
  /\ Len(new.health_calls) = Len(old.health_calls) + 1
  /\ new.health_calls[Len(new.health_calls)]

\* the cell a fill puts in place of old_cell of column c, the dtype choosing
\* between the control column's mean and its mode
FilledByDtype(self, c, old_cell) ==
  IF old_cell # NA THEN old_cell
  ELSE IF self.dtypes[c] \in {"float64", "int64"}
    THEN MeanCell(Column(self.data_control, c))
    ELSE ModeCell(Column(self.data_control, c))

\* the same, data_config choosing: the mean for a column listed as numerical
FilledByConfig(self, c, old_cell) ==
  IF old_cell # NA THEN old_cell
  ELSE IF InSeq(c, self.numerical)
    THEN MeanCell(Column(self.data_control, c))
    ELSE ModeCell(Column(self.data_control, c))

RowComplete(row) == \A c \in Columns : row[c] # NA

Cleaned(self) == \E i \in DOMAIN self.health_calls : self.health_calls[i]

\* what a "remove" step does: the rows without a missing value stay, in order
RemoveStep(old, new) ==
  CleaningStep(old, new, "remove") =>
    new.data_treatment = SelectSeq(old.data_treatment, RowComplete)

\* the steps of the sequence, as the code makes them
HealthSteps(old, new, r, r2) ==
  /\ RemoveStep(old, new)
  /\ CleaningStep(old, new, "fill") =>
       /\ Len(new.data_treatment) = Len(old.data_treatment)
       /\ \A i \in DOMAIN old.data_treatment : \A c \in Columns :
            new.data_treatment[i][c] = FilledByDtype(old, c, old.data_treatment[i][c])
  /\ (~r.called /\ r2.called /\ Cleaned(old) /\ ~HasMissing(old.data_control)) =>
       ~(r2.raised = "ValueError" /\ r2.invoked = <<>>)

C18_ConclusionFieldIsSet ==
  (out.called /\ out.ret # NoObj) =>
    /\ out.ret.conclusion = out.ret.dataframe.conclusion
    /\ out.ret.conclusion \in {"OK", "FAILED"}

\* ------------------------------------ properties of the cut at the maximum
\* the cut of a non-empty sample: no occurrence of the maximum is left, the
\* cut is smaller than the sample, and it is empty exactly when the quantile
\* is the sample's minimum
CutBelowMaximum(data, cut, quantile) ==
  /\ cut[MaxOf(Support(data))] = 0
  /\ Size(cut) < Size(data)
  /\ Size(cut) = 0 <=> Eq(quantile, Frac(MinOf(Support(data)), 1))

AllNaN(percents) == \A i \in DOMAIN percents : IsNaN(percents[i])

\* the masses of an emptied sample are counts divided by a length of 0
EmptyCutDividesByZero(cls, cut, raw) ==
  (cls \in {"KLDivergence", "PSI"} /\ Size(cut) = 0) => raw # <<>> /\ AllNaN(raw)

InCutRange(q) == Lt(Zero, q) /\ Le(q, One)

\* C19: with q in (0, 1] the cut of KLDivergence, PSI and Wasserstein removes
\* every occurrence of a sample's maximum, so the cut sample is strictly
\* smaller; it is empty exactly when the q-quantile equals the sample's
\* minimum, and the per-bin masses of an emptied sample (KLDivergence, PSI)
\* are NaN, counts divided by a length of 0.
C19_CutRemovesMaximum ==
  (out.called /\ test.cls \in {"KLDivergence", "PSI", "Wasserstein"}
     /\ InCutRange(test.q)) =>
    /\ CutBelowMaximum(test.control_data, out.control_cut,
                       Quantile(test.control_data, test.q))
    /\ CutBelowMaximum(test.treatment_data, out.treatment_cut,
                       Quantile(test.treatment_data, test.q))
    /\ EmptyCutDividesByZero(test.cls, out.control_cut, out.raw_reference)
    /\ EmptyCutDividesByZero(test.cls, out.treatment_cut, out.raw_current)

\* a control sample with different values whose median is its minimum: the
\* cut empties it and its masses are NaN, while the treatment sample keeps
\* some of its values
C19_Witness ==
  /\ out.called /\ test.cls = "KLDivergence" /\ Eq(test.q, Frac(1, 2))
  /\ ~IsConstant(test.control_data) /\ Size(out.control_cut) = 0
  /\ AllNaN(out.raw_reference)
  /\ 0 < Size(out.treatment_cut)
  /\ Size(out.treatment_cut) < Size(test.treatment_data)

\* C19 as stated: the cut sample is empty exactly when all values are equal
C19_AsStated ==
  (out.called /\ test.cls \in {"KLDivergence", "PSI", "Wasserstein"}
     /\ InCutRange(test.q)) =>
    /\ Size(out.control_cut) = 0 <=> IsConstant(test.control_data)
    /\ Size(out.treatment_cut) = 0 <=> IsConstant(test.treatment_data)

====
